---- MODULE Spec2Model ----
(***************************************************************************)
(* Model of the RLP_V2 edge protocol engine (package edge): the pivot      *)
(* table, the substring dispatchers parseResponse / parseInboundRequest,   *)
(* the typed response parsers, parseError, ResponseID, the classifiers     *)
(* IsResponseType / IsErrorType, NewMerkleTree, and the encoders           *)
(* NewMessage and NewResponseMessage.                                      *)
(*                                                                         *)
(* A byte is a number in 0..255 and a buffer is a sequence of bytes, so    *)
(* bytes.Contains is a real substring search over the RLP encoding of the  *)
(* envelope.  A uint64 is kept as its big-endian digit sequence without    *)
(* leading zeros (the form RLP carries it in), so 7 is <<7>> and 0 is <<>>.*)
(***************************************************************************)
EXTENDS Integers, Sequences, FiniteSets, TLC

VARIABLES
    buffer,     \* the raw inbound bytes handed to the parse operations
    call,       \* the encoder call at hand (NewMessage or NewResponseMessage) and its arguments
    op,         \* the operation that ran last ("none" before any)
    ret,        \* what that operation returned
    extern,     \* results of the external collaborators for this input (blockquick.NewHeader, the Merkle parser)
    session     \* per ref, what the frames handled so far did to it: "unknown", "open" or "closed"

vars == <<buffer, call, op, ret, extern, session>>

(***************************************************************************)
(* The pivot table.                                                        *)
(***************************************************************************)
\* src/unnamed/part_001:17  responsePivot = []byte("response")
responsePivot == <<114, 101, 115, 112, 111, 110, 115, 101>>
\* src/unnamed/part_001:18  errorPivot = []byte("error")
errorPivot == <<101, 114, 114, 111, 114>>
\* src/unnamed/part_001:19  ticketTooOldPivot = []byte("too_old")
ticketTooOldPivot == <<116, 111, 111, 95, 111, 108, 100>>
\* src/unnamed/part_001:20  ticketTooLowPivot = []byte("too_low")
ticketTooLowPivot == <<116, 111, 111, 95, 108, 111, 119>>
\* src/unnamed/part_001:21  ticketThanksPivot = []byte("thanks!")
ticketThanksPivot == <<116, 104, 97, 110, 107, 115, 33>>
\* src/unnamed/part_001:22  portOpenPivot = []byte("portopen")
portOpenPivot == <<112, 111, 114, 116, 111, 112, 101, 110>>
\* src/unnamed/part_001:23  portSendPivot = []byte("portsend")
portSendPivot == <<112, 111, 114, 116, 115, 101, 110, 100>>
\* src/unnamed/part_001:24  portClosePivot = []byte("portclose")
portClosePivot == <<112, 111, 114, 116, 99, 108, 111, 115, 101>>
\* src/unnamed/part_001:25  goodbyePivot = []byte("goodbye")
goodbyePivot == <<103, 111, 111, 100, 98, 121, 101>>
\* src/unnamed/part_001:27  blockPivot = []byte("getblock")
blockPivot == <<103, 101, 116, 98, 108, 111, 99, 107>>
\* src/unnamed/part_001:28  block2Pivot = []byte("getblock2")
block2Pivot == <<103, 101, 116, 98, 108, 111, 99, 107, 50>>
\* src/unnamed/part_001:29  blockHeaderPivot = []byte("getblockheader")
blockHeaderPivot == <<103, 101, 116, 98, 108, 111, 99, 107, 104, 101, 97, 100, 101, 114>>
\* src/unnamed/part_001:30  blockHeader2Pivot = []byte("getblockheader2")
blockHeader2Pivot == <<103, 101, 116, 98, 108, 111, 99, 107, 104, 101, 97, 100, 101, 114, 50>>
\* src/unnamed/part_001:31  blockquickPivot = []byte("getblockquick")
blockquickPivot == <<103, 101, 116, 98, 108, 111, 99, 107, 113, 117, 105, 99, 107>>
\* src/unnamed/part_001:32  blockquick2Pivot = []byte("getblockquick2")
blockquick2Pivot == <<103, 101, 116, 98, 108, 111, 99, 107, 113, 117, 105, 99, 107, 50>>
\* src/unnamed/part_001:33  blockPeakPivot = []byte("getblockpeak")
blockPeakPivot == <<103, 101, 116, 98, 108, 111, 99, 107, 112, 101, 97, 107>>
\* src/unnamed/part_001:34  accountRootsPivot = []byte("getaccountroots")
accountRootsPivot == <<103, 101, 116, 97, 99, 99, 111, 117, 110, 116, 114, 111, 111, 116, 115>>
\* src/unnamed/part_001:35  accountValuePivot = []byte("getaccountvalue")
accountValuePivot == <<103, 101, 116, 97, 99, 99, 111, 117, 110, 116, 118, 97, 108, 117, 101>>
\* src/unnamed/part_001:36  accountPivot = []byte("getaccount")
accountPivot == <<103, 101, 116, 97, 99, 99, 111, 117, 110, 116>>
\* src/unnamed/part_001:37  stateRootsPivot = []byte("getstateroots")
stateRootsPivot == <<103, 101, 116, 115, 116, 97, 116, 101, 114, 111, 111, 116, 115>>
\* src/unnamed/part_001:38  objectPivot = []byte("getobject")
objectPivot == <<103, 101, 116, 111, 98, 106, 101, 99, 116>>
\* src/unnamed/part_001:39  nodePivot = []byte("getnode")
nodePivot == <<103, 101, 116, 110, 111, 100, 101>>
\* src/unnamed/part_001:40  ticketPivot = []byte("getticket")
ticketPivot == <<103, 101, 116, 116, 105, 99, 107, 101, 116>>
\* src/unnamed/part_001:41  helloPivot = []byte("hello")
helloPivot == <<104, 101, 108, 108, 111>>
\* src/unnamed/part_001:42  okPivot = []byte("ok")
okPivot == <<111, 107>>

(***************************************************************************)
(* Other byte strings that occur on the wire.                              *)
(***************************************************************************)
\* "ticket": the method name NewMessage encodes for a ticket request
ticketMethod == <<116, 105, 99, 107, 101, 116>>
\* "too_big": a ticket outcome tag the client does not know
tooBigTag == <<116, 111, 111, 95, 98, 105, 103>>
\* "thanks!!": another unknown ticket outcome tag
thanksBangTag == <<116, 104, 97, 110, 107, 115, 33, 33>>
\* "busy": a portopen result other than "ok"
busyResult == <<98, 117, 115, 121>>
\* "rw": a portopen mode
rwMode == <<114, 119>>

(***************************************************************************)
(* Bounds of the checked inputs.                                           *)
(***************************************************************************)
MaxRequestID == 2
MaxRef == 2
MaxTotal == 1

(***************************************************************************)
(* The nested value grammar of the wire format (package rlp): a value is   *)
(* a byte string or a list of values.                                      *)
(***************************************************************************)
S(bytes) == [k |-> "s", b |-> bytes, items |-> <<>>]
L(elems) == [k |-> "l", b |-> <<>>, items |-> elems]

\* A uint64 as RLP carries it: big-endian digits, no leading zero.
Uint(n) == IF n = 0 THEN <<>> ELSE IF n < 256 THEN <<n>> ELSE <<n \div 256, n % 256>>

\* The header of a string (base 128) or a list (base 192) of n payload bytes.
LenHeader(base, n) ==
    IF n < 56 THEN <<base + n>>
    ELSE IF n < 256 THEN <<base + 56, n>>
    ELSE <<base + 57, n \div 256, n % 256>>

RECURSIVE EncodeValue(_), ConcatEncoded(_)
\* rlp.EncodeToBytes
EncodeValue(v) ==
    IF v.k = "s"
    THEN IF Len(v.b) = 1 /\ v.b[1] < 128 THEN v.b ELSE LenHeader(128, Len(v.b)) \o v.b
    ELSE LET payload == ConcatEncoded(v.items) IN LenHeader(192, Len(payload)) \o payload

ConcatEncoded(elems) ==
    IF elems = <<>> THEN <<>> ELSE EncodeValue(Head(elems)) \o ConcatEncoded(Tail(elems))

DecodeFail == [ok |-> FALSE, v |-> S(<<>>), next |-> 0]

RECURSIVE DecodeAt(_, _, _), DecodeItems(_, _, _)
\* One value read from buf[i..end]: rlp.Stream reading a kind/size header and
\* then the content, rejecting truncated input and non-canonical sizes.
DecodeAt(buf, i, end) ==
    IF i > end THEN DecodeFail
    ELSE LET b0 == buf[i] IN
      IF b0 < 128 THEN [ok |-> TRUE, v |-> S(<<b0>>), next |-> i + 1]
      ELSE LET isList == b0 >= 192
               base == IF isList THEN 192 ELSE 128
               short == b0 - base < 56
               lenlen == IF short THEN 0 ELSE b0 - base - 55
               hdrOk == lenlen <= 2 /\ i + lenlen <= end
               size == IF short THEN b0 - base
                       ELSE IF lenlen = 1 THEN buf[i + 1]
                       ELSE buf[i + 1] * 256 + buf[i + 2]
               start == i + 1 + lenlen
               last == start + size - 1
           IN IF ~hdrOk THEN DecodeFail
              ELSE IF last > end THEN DecodeFail
              ELSE IF ~short /\ (size < 56 \/ buf[i + 1] = 0) THEN DecodeFail
              ELSE IF ~isList
                   THEN IF size = 1 /\ buf[start] < 128 THEN DecodeFail
                        ELSE [ok |-> TRUE, v |-> S(SubSeq(buf, start, last)), next |-> last + 1]
              ELSE LET r == DecodeItems(buf, start, last) IN
                   IF r.ok THEN [ok |-> TRUE, v |-> L(r.items), next |-> last + 1]
                   ELSE DecodeFail

DecodeItems(buf, i, last) ==
    IF i > last THEN [ok |-> TRUE, items |-> <<>>]
    ELSE LET r == DecodeAt(buf, i, last) IN
         IF ~r.ok THEN [ok |-> FALSE, items |-> <<>>]
         ELSE LET rest == DecodeItems(buf, r.next, last) IN
              IF rest.ok THEN [ok |-> TRUE, items |-> <<r.v>> \o rest.items]
              ELSE [ok |-> FALSE, items |-> <<>>]

(***************************************************************************)
(* Typed decoding: the shape of a Go struct the stream is decoded into.    *)
(***************************************************************************)
TUint == [t |-> "uint", fields |-> <<>>]
TBytes == [t |-> "bytes", fields |-> <<>>]
TAnyList == [t |-> "anylist", fields |-> <<>>]
TStruct(fs) == [t |-> "struct", fields |-> fs]
TList(elem) == [t |-> "list", fields |-> <<elem>>]

RECURSIVE Fits(_, _)
\* Whether value v decodes into a Go value of shape sh: kinds must agree, a
\* struct takes exactly its number of fields, a uint64 at most 8 bytes and
\* no leading zero.
Fits(v, sh) ==
    CASE sh.t = "uint" -> v.k = "s" /\ Len(v.b) <= 8 /\ (v.b = <<>> \/ v.b[1] # 0)
      [] sh.t = "bytes" -> v.k = "s"
      [] sh.t = "anylist" -> v.k = "l"
      [] sh.t = "struct" -> /\ v.k = "l"
                            /\ Len(v.items) = Len(sh.fields)
                            /\ \A j \in 1..Len(sh.fields) : Fits(v.items[j], sh.fields[j])
      [] sh.t = "list" -> /\ v.k = "l"
                          /\ \A j \in 1..Len(v.items) : Fits(v.items[j], sh.fields[1])

\* rlp.NewStream(bytes.NewReader(buffer), 0).Decode(&response): the first
\* value of the buffer, decoded into the struct; bytes after it are not read.
Decode(buf, sh) ==
    LET r == DecodeAt(buf, 1, Len(buf)) IN
    IF r.ok /\ Fits(r.v, sh) THEN [ok |-> TRUE, v |-> r.v]
    ELSE [ok |-> FALSE, v |-> S(<<>>)]

\* The first value of a buffer, untyped.
Wire(buf) == DecodeAt(buf, 1, Len(buf))

\* bytes.Contains(buffer, pivot)
Contains(buf, pivot) ==
    \E i \in 1..(Len(buf) - Len(pivot) + 1) : SubSeq(buf, i, i + Len(pivot) - 1) = pivot

(***************************************************************************)
(* Envelopes.  A response envelope is [request_id, ["response", method,    *)
(* result...]]; a request envelope is [request_id, [method, argument...]]. *)
(***************************************************************************)
Envelope(id, payload) == L(<<S(id), L(payload)>>)

\* The payload elements of a decoded envelope.
Payload(v) == v.items[2].items

\* Response structs: RequestID uint64, Payload struct{ResponseType, Method, ...}.
ResponseShape(fs) == TStruct(<<TUint, TStruct(<<TBytes, TBytes>> \o fs)>>)
\* Request structs: RequestID uint64, Payload struct{Method, ...}.
RequestShape(fs) == TStruct(<<TUint, TStruct(<<TBytes>> \o fs)>>)

ticketThanksResponse == ResponseShape(<<TBytes>>)
ticketTooLowResponse == ResponseShape(<<TBytes, TBytes, TUint, TUint, TBytes, TBytes>>)
ticketTooOldResponse == ResponseShape(<<TBytes, TBytes, TUint, TUint, TBytes, TBytes>>)
portOpenResponse == ResponseShape(<<TBytes, TUint>>)
blockPeakResponse == ResponseShape(<<TUint>>)
blockResponse == ResponseShape(<<TAnyList>>)
blockquickResponse == ResponseShape(<<TAnyList>>)
Item == TStruct(<<TBytes, TBytes>>)
blockHeaderResponse == ResponseShape(<<TList(Item), TBytes>>)
accountResponse == ResponseShape(<<TList(Item), TAnyList>>)
accountValueResponse == ResponseShape(<<TAnyList>>)
accountRootsResponse == ResponseShape(<<TList(TBytes)>>)
stateRootsResponse == ResponseShape(<<TList(TBytes)>>)
objectResponse ==
    ResponseShape(<<TStruct(<<TBytes, TUint, TBytes, TUint, TUint, TBytes, TBytes, TBytes>>)>>)
serverObjectResponse == ResponseShape(<<TStruct(<<TBytes, TUint, TUint, TBytes>>)>>)
portOpenInboundRequest == RequestShape(<<TUint, TUint, TBytes>>)
portSendInboundRequest == RequestShape(<<TUint, TBytes>>)
portCloseInboundRequest == RequestShape(<<TUint>>)
goodbyeInboundRequest == RequestShape(<<TBytes>>)
\* errorResponse: RequestID uint64, Payload []string.
errorResponse == TStruct(<<TUint, TList(TBytes)>>)
\* responseID: RequestID uint64 and the payload left as it is.
responseID == TStruct(<<TUint, TAnyList>>)

(***************************************************************************)
(* What an operation returns: the kind of the value ("nil" for a nil       *)
(* interface), the value, and the error ("nil" for none).                  *)
(***************************************************************************)
Ret(k, v, e) == [kind |-> k, val |-> v, err |-> e]
NilErr(e) == Ret("nil", <<>>, e)
\* The error of a failed rlp decode.
ErrDecode == "rlp: decode error"

\* copy(dst[:], src) into a zeroed [20]byte.
Copy20(src) == [i \in 1..20 |-> IF i <= Len(src) THEN src[i] ELSE 0]

\* DeviceTicket{}: every field at its zero value.
VoidTicket ==
    [ServerID |-> Copy20(<<>>), FleetAddr |-> Copy20(<<>>), TotalConnections |-> <<>>, TotalBytes |-> <<>>,
     LocalAddr |-> <<>>, DeviceSig |-> <<>>, ServerSig |-> <<>>, BlockHash |-> <<>>,
     BlockNumber |-> <<>>, Err |-> "nil"]

\* The literal "ok" a portopen result is compared with.
okLiteral == <<111, 107>>

\* Item keys of a block header and an account.
keyTransactionHash == <<116, 114, 97, 110, 115, 97, 99, 116, 105, 111, 110, 95, 104, 97, 115, 104>>
keyStateHash == <<115, 116, 97, 116, 101, 95, 104, 97, 115, 104>>
keyBlockHash == <<98, 108, 111, 99, 107, 95, 104, 97, 115, 104>>
keyPreviousBlock == <<112, 114, 101, 118, 105, 111, 117, 115, 95, 98, 108, 111, 99, 107>>
keyNonce == <<110, 111, 110, 99, 101>>
keyMinerSignature == <<109, 105, 110, 101, 114, 95, 115, 105, 103, 110, 97, 116, 117, 114, 101>>
keyTimestamp == <<116, 105, 109, 101, 115, 116, 97, 109, 112>>
keyNumber == <<110, 117, 109, 98, 101, 114>>
keyStorageRoot == <<115, 116, 111, 114, 97, 103, 101, 82, 111, 111, 116>>
keyCode == <<99, 111, 100, 101>>
keyBalance == <<98, 97, 108, 97, 110, 99, 101>>

\* findItemInItems: the first item with the key, or the zero Item and an error.
findItemInItems(items, key) ==
    LET hits == {j \in 1..Len(items) : items[j].items[1].b = key} IN
    IF hits = {} THEN [Value |-> <<>>, err |-> "errKeyNotFoundInItems"]
    ELSE LET j == CHOOSE x \in hits : \A y \in hits : x <= y IN
         [Value |-> items[j].items[2].b, err |-> "nil"]

RECURSIVE StripZeros(_)
\* util.DecodeBytesToUint: the big-endian number of the bytes, as digits.
StripZeros(b) == IF b # <<>> /\ b[1] = 0 THEN StripZeros(Tail(b)) ELSE b

RECURSIVE ByteSum(_)
ByteSum(b) == IF b = <<>> THEN 0 ELSE (b[1] + 1 + 3 * ByteSum(Tail(b))) % 251

\* secp256k1.DecompressPubkeyBytes: the uncompressed form of the key.
DecompressPubkeyBytes(pk) == <<4>> \o pk

\* blockquick.NewHeader: the header of the given fields.
NewHeader(txHash, stateHash, prevBlock, minerSig, minerPubkey, timestamp, number, nonce) ==
    [txHash |-> txHash, stateHash |-> stateHash, prevBlock |-> prevBlock,
     minerSig |-> minerSig, minerPubkey |-> minerPubkey,
     timestamp |-> timestamp, number |-> number, nonce |-> nonce]

\* BlockHeader.Hash: a digest of every header field.
HeaderHash(h) ==
    LET d == (ByteSum(h.txHash) + 3 * ByteSum(h.stateHash) + 5 * ByteSum(h.prevBlock)
              + 7 * ByteSum(h.minerSig) + 11 * ByteSum(h.minerPubkey)
              + 13 * ByteSum(h.timestamp) + 17 * ByteSum(h.number)
              + 19 * ByteSum(h.nonce)) % 251
    IN <<d, 255 - d>>

(***************************************************************************)
(* Parsers of the responses of rpc calls.                                  *)
(***************************************************************************)
parseBlockPeakResponse(buf) ==
    LET d == Decode(buf, blockPeakResponse) IN
    IF ~d.ok THEN NilErr(ErrDecode)
    ELSE Ret("uint64", Payload(d.v)[3].b, "nil")

parseBlockResponse(buf) ==
    LET d == Decode(buf, blockResponse) IN
    IF ~d.ok THEN NilErr(ErrDecode)
    ELSE Ret("blockResponse", d.v, "nil")

\* Fields read from the response before the header is built.
HeaderOf(p) ==
    NewHeader(findItemInItems(p[3].items, keyTransactionHash).Value,
              findItemInItems(p[3].items, keyStateHash).Value,
              findItemInItems(p[3].items, keyPreviousBlock).Value,
              findItemInItems(p[3].items, keyMinerSignature).Value,
              DecompressPubkeyBytes(p[4].b),
              StripZeros(findItemInItems(p[3].items, keyTimestamp).Value),
              StripZeros(findItemInItems(p[3].items, keyNumber).Value),
              StripZeros(findItemInItems(p[3].items, keyNonce).Value))

\* parseBlockHeaderResponse without the comparison of the two hashes.
parseBlockHeaderResponse_NoHashCheck(buf, ext) ==
    LET d == Decode(buf, blockHeaderResponse) IN
    IF ~d.ok THEN NilErr(ErrDecode)
    ELSE IF ext.newHeaderErr THEN NilErr("blockquick: invalid header")
    ELSE Ret("BlockHeader", HeaderOf(Payload(d.v)), "nil")

parseBlockHeaderResponse(buf, ext) ==
    LET d == Decode(buf, blockHeaderResponse) IN
    IF ~d.ok THEN NilErr(ErrDecode)
    ELSE LET p == Payload(d.v)
             blockHash == findItemInItems(p[3].items, keyBlockHash)
             header == HeaderOf(p)
         IN IF ext.newHeaderErr THEN NilErr("blockquick: invalid header")
            ELSE IF HeaderHash(header) # blockHash.Value
                 THEN NilErr("Blockhash != real hash")
            ELSE Ret("BlockHeader", header, "nil")

parseBlockquickResponse(buf) ==
    LET d == Decode(buf, blockquickResponse) IN
    IF ~d.ok THEN NilErr(ErrDecode)
    ELSE Ret("Items", Payload(d.v)[3].items, "nil")

\* parseDeviceTicketResponse with the thanks branch keeping the totals of the
\* reply it decoded instead of returning the empty ticket.
parseDeviceTicketResponse_ThanksKeepsReply(buf) ==
    IF Contains(buf, ticketThanksPivot)
    THEN LET d == Decode(buf, ticketThanksResponse) IN
         IF ~d.ok THEN NilErr(ErrDecode)
         ELSE Ret("DeviceTicket", [VoidTicket EXCEPT !.DeviceSig = Payload(d.v)[3].b], "nil")
    ELSE NilErr("ErrFailedToParseTicket")

parseDeviceTicketResponse(buf) ==
    IF Contains(buf, ticketThanksPivot)
    THEN LET d == Decode(buf, ticketThanksResponse) IN
         IF ~d.ok THEN NilErr(ErrDecode)
         ELSE Ret("DeviceTicket", VoidTicket, "nil")
    ELSE IF Contains(buf, ticketTooLowPivot)
    THEN LET d == Decode(buf, ticketTooLowResponse) IN
         IF ~d.ok THEN NilErr(ErrDecode)
         ELSE LET p == Payload(d.v) IN
              Ret("DeviceTicket",
                  [VoidTicket EXCEPT !.BlockHash = p[4].b,
                                     !.TotalConnections = p[5].b,
                                     !.TotalBytes = p[6].b,
                                     !.LocalAddr = p[7].b,
                                     !.DeviceSig = p[8].b,
                                     !.Err = "ErrTicketTooLow"],
                  "nil")
    ELSE IF Contains(buf, ticketTooOldPivot)
    THEN LET d == Decode(buf, ticketTooOldResponse) IN
         IF ~d.ok THEN NilErr(ErrDecode)
         ELSE Ret("DeviceTicket", [VoidTicket EXCEPT !.Err = "ErrTicketTooOld"], "nil")
    ELSE NilErr("ErrFailedToParseTicket")

parseDeviceObjectResponse(buf) ==
    LET d == Decode(buf, objectResponse) IN
    IF ~d.ok THEN NilErr(ErrDecode)
    ELSE LET t == Payload(d.v)[3].items IN
         Ret("DeviceTicket",
             [ServerID |-> Copy20(t[1].b), BlockNumber |-> t[2].b, BlockHash |-> <<>>,
              FleetAddr |-> Copy20(t[3].b), TotalConnections |-> t[4].b,
              TotalBytes |-> t[5].b, LocalAddr |-> t[6].b, DeviceSig |-> t[7].b,
              ServerSig |-> t[8].b, Err |-> "nil"],
             "nil")

\* NewMerkleTree copying what the parser returned into the tree before it
\* looks at the error.
NewMerkleTree_KeepsParsed(rawTree, ext) ==
    [mt |-> [RawTree |-> rawTree, RootHash |-> ext.rootHash, Module |-> ext.module,
             Leaves |-> ext.leaves],
     err |-> IF ext.proofErr THEN "ErrInvalidProof" ELSE "nil"]

\* MerkleTree.parse is the work of the Merkle parser; ext carries the four
\* values it returns (on a failure, whatever it had gathered and the error).
NewMerkleTree(rawTree, ext) ==
    IF ext.proofErr
    THEN [mt |-> [RawTree |-> rawTree, RootHash |-> <<>>, Module |-> <<>>, Leaves |-> <<>>],
          err |-> "ErrInvalidProof"]
    ELSE [mt |-> [RawTree |-> rawTree, RootHash |-> ext.rootHash, Module |-> ext.module,
                  Leaves |-> ext.leaves],
          err |-> "nil"]

parseAccountResponse(buf, ext) ==
    LET d == Decode(buf, accountResponse) IN
    IF ~d.ok THEN NilErr(ErrDecode)
    ELSE LET p == Payload(d.v)
             stateTree == NewMerkleTree(p[4].items, ext)
         IN IF stateTree.err # "nil" THEN NilErr(stateTree.err)
            ELSE Ret("Account",
                     [StorageRoot |-> findItemInItems(p[3].items, keyStorageRoot).Value,
                      Nonce |-> StripZeros(findItemInItems(p[3].items, keyNonce).Value),
                      Code |-> findItemInItems(p[3].items, keyCode).Value,
                      Balance |-> StripZeros(findItemInItems(p[3].items, keyBalance).Value),
                      stateTree |-> stateTree.mt],
                     "nil")

parseAccountRootsResponse(buf) ==
    LET d == Decode(buf, accountRootsResponse) IN
    IF ~d.ok THEN NilErr(ErrDecode)
    ELSE Ret("AccountRoots", [AccountRoots |-> Payload(d.v)[3].items], "nil")

parseAccountValueResponse(buf, ext) ==
    LET d == Decode(buf, accountValueResponse) IN
    IF ~d.ok THEN NilErr(ErrDecode)
    ELSE LET accountTree == NewMerkleTree(Payload(d.v)[3].items, ext) IN
         IF accountTree.err # "nil" THEN NilErr(accountTree.err)
         ELSE Ret("AccountValue", [accountTree |-> accountTree.mt], "nil")

\* parsePortOpenResponse taking any non-empty result for "ok".
parsePortOpenResponse_AnyResultOk(buf) ==
    LET d == Decode(buf, portOpenResponse) IN
    IF ~d.ok THEN NilErr(ErrDecode)
    ELSE LET p == Payload(d.v) IN
         Ret("PortOpen",
             [Ok |-> p[3].b # <<>>, Ref |-> p[4].b, Port |-> <<>>,
              RawDeviceID |-> <<>>, DeviceID |-> <<>>],
             "nil")

parsePortOpenResponse(buf) ==
    LET d == Decode(buf, portOpenResponse) IN
    IF ~d.ok THEN NilErr(ErrDecode)
    ELSE LET p == Payload(d.v) IN
         Ret("PortOpen",
             [Ok |-> p[3].b = okLiteral, Ref |-> p[4].b, Port |-> <<>>,
              RawDeviceID |-> <<>>, DeviceID |-> <<>>],
             "nil")

parseServerObjResponse(buf) ==
    LET d == Decode(buf, serverObjectResponse) IN
    IF ~d.ok THEN NilErr(ErrDecode)
    ELSE LET o == Payload(d.v)[3].items IN
         Ret("ServerObj",
             [Host |-> o[1].b, EdgePort |-> o[2].b, ServerPort |-> o[3].b, Sig |-> o[4].b],
             "nil")

parseStateRootsResponse(buf) ==
    LET d == Decode(buf, stateRootsResponse) IN
    IF ~d.ok THEN NilErr(ErrDecode)
    ELSE Ret("StateRoots", [StateRoots |-> Payload(d.v)[3].items], "nil")

(***************************************************************************)
(* Parsers of inbound requests.                                            *)
(***************************************************************************)
HexDigit(n) == IF n < 10 THEN 48 + n ELSE 87 + n
RECURSIVE HexOf(_)
HexOf(b) ==
    IF b = <<>> THEN <<>>
    ELSE <<HexDigit(b[1] \div 16), HexDigit(b[1] % 16)>> \o HexOf(Tail(b))
\* util.EncodeToString: "0x" and the hex digits of the bytes.
EncodeToString(src) == <<48, 120>> \o HexOf(src)

parseInboundPortOpenRequest(buf) ==
    LET d == Decode(buf, portOpenInboundRequest) IN
    IF ~d.ok THEN NilErr(ErrDecode)
    ELSE LET p == Payload(d.v) IN
         Ret("PortOpen",
             [Port |-> p[2].b, Ref |-> p[3].b, RawDeviceID |-> p[4].b,
              DeviceID |-> EncodeToString(p[4].b), Ok |-> TRUE],
             "nil")

parseInboundPortSendRequest(buf) ==
    LET d == Decode(buf, portSendInboundRequest) IN
    IF ~d.ok THEN NilErr(ErrDecode)
    ELSE LET p == Payload(d.v) IN
         Ret("PortSend", [Ref |-> p[2].b, Data |-> p[3].b, Ok |-> TRUE], "nil")

parseInboundPortCloseRequest(buf) ==
    LET d == Decode(buf, portCloseInboundRequest) IN
    IF ~d.ok THEN NilErr(ErrDecode)
    ELSE Ret("PortClose", [Ref |-> Payload(d.v)[2].b, Ok |-> TRUE], "nil")

parseInboundGoodbyeRequest(buf) ==
    LET d == Decode(buf, goodbyeInboundRequest) IN
    IF ~d.ok THEN NilErr(ErrDecode)
    ELSE Ret("Goodbye", [Reason |-> Payload(d.v)[2].b], "nil")

(***************************************************************************)
(* The dispatchers.                                                        *)
(***************************************************************************)
\* The branch of parseResponse a buffer takes: the first pivot, in the order
\* of the tests, that the buffer contains.
responseHandler(buf) ==
    IF Contains(buf, portOpenPivot) THEN "parsePortOpenResponse"
    ELSE IF Contains(buf, blockPivot) THEN "parseBlockResponse"
    ELSE IF Contains(buf, block2Pivot) THEN "parseBlockResponse"
    ELSE IF Contains(buf, blockHeaderPivot) THEN "parseBlockHeaderResponse"
    ELSE IF Contains(buf, blockHeader2Pivot) THEN "parseBlockHeaderResponse"
    ELSE IF Contains(buf, blockquickPivot) THEN "parseBlockquickResponse"
    ELSE IF Contains(buf, blockquick2Pivot) THEN "parseBlockquickResponse"
    ELSE IF Contains(buf, blockPeakPivot) THEN "parseBlockPeakResponse"
    ELSE IF Contains(buf, accountPivot) THEN "parseAccountResponse"
    ELSE IF Contains(buf, accountValuePivot) THEN "parseAccountValueResponse"
    ELSE IF Contains(buf, accountRootsPivot) THEN "parseAccountRootsResponse"
    ELSE IF Contains(buf, stateRootsPivot) THEN "parseStateRootsResponse"
    ELSE IF Contains(buf, objectPivot) THEN "parseDeviceObjectResponse"
    ELSE IF Contains(buf, nodePivot) THEN "parseServerObjResponse"
    ELSE IF Contains(buf, ticketPivot) THEN "parseDeviceTicketResponse"
    ELSE "none"

\* A call of the named response parser.
ApplyDecoder(dec, buf, ext) ==
    CASE dec = "parsePortOpenResponse" -> parsePortOpenResponse(buf)
      [] dec = "parseBlockResponse" -> parseBlockResponse(buf)
      [] dec = "parseBlockHeaderResponse" -> parseBlockHeaderResponse(buf, ext)
      [] dec = "parseBlockquickResponse" -> parseBlockquickResponse(buf)
      [] dec = "parseBlockPeakResponse" -> parseBlockPeakResponse(buf)
      [] dec = "parseAccountResponse" -> parseAccountResponse(buf, ext)
      [] dec = "parseAccountValueResponse" -> parseAccountValueResponse(buf, ext)
      [] dec = "parseAccountRootsResponse" -> parseAccountRootsResponse(buf)
      [] dec = "parseStateRootsResponse" -> parseStateRootsResponse(buf)
      [] dec = "parseDeviceObjectResponse" -> parseDeviceObjectResponse(buf)
      [] dec = "parseServerObjResponse" -> parseServerObjResponse(buf)
      [] dec = "parseDeviceTicketResponse" -> parseDeviceTicketResponse(buf)

parseResponse(buf, ext) ==
    IF responseHandler(buf) = "none" THEN NilErr("ErrResponseHandlerNotFound")
    ELSE ApplyDecoder(responseHandler(buf), buf, ext)

\* parseInboundRequest choosing by the method element of the envelope
\* instead of the first pivot found.
inboundHandler_ByMethodField(buf) ==
    LET w == Wire(buf)
        method == IF w.ok /\ w.v.k = "l" /\ Len(w.v.items) = 2 /\ w.v.items[2].k = "l"
                     /\ Len(w.v.items[2].items) >= 1
                  THEN w.v.items[2].items[1].b ELSE <<>>
    IN IF method = portOpenPivot THEN "parseInboundPortOpenRequest"
       ELSE IF method = portSendPivot THEN "parseInboundPortSendRequest"
       ELSE IF method = portClosePivot THEN "parseInboundPortCloseRequest"
       ELSE IF method = goodbyePivot THEN "parseInboundGoodbyeRequest"
       ELSE "none"

\* The branch of parseInboundRequest a buffer takes.
inboundHandler(buf) ==
    IF Contains(buf, portOpenPivot) THEN "parseInboundPortOpenRequest"
    ELSE IF Contains(buf, portSendPivot) THEN "parseInboundPortSendRequest"
    ELSE IF Contains(buf, portClosePivot) THEN "parseInboundPortCloseRequest"
    ELSE IF Contains(buf, goodbyePivot) THEN "parseInboundGoodbyeRequest"
    ELSE "none"

\* The final bare return leaves the named results req and err both nil.
parseInboundRequest(buf) ==
    CASE inboundHandler(buf) = "parseInboundPortOpenRequest" -> parseInboundPortOpenRequest(buf)
      [] inboundHandler(buf) = "parseInboundPortSendRequest" -> parseInboundPortSendRequest(buf)
      [] inboundHandler(buf) = "parseInboundPortCloseRequest" -> parseInboundPortCloseRequest(buf)
      [] inboundHandler(buf) = "parseInboundGoodbyeRequest" -> parseInboundGoodbyeRequest(buf)
      [] OTHER -> NilErr("nil")

(***************************************************************************)
(* Errors and request ids.  Both operations drop the error of Decode and   *)
(* read the struct as the decoder left it: the fields decoded before the   *)
(* failure, the others zero.                                               *)
(***************************************************************************)
RECURSIVE StringsOf(_)
\* A []string filled from the elements of a list: every string up to the
\* first element that is not one, for which an empty string stands.
StringsOf(elems) ==
    IF elems = <<>> THEN <<>>
    ELSE IF Head(elems).k = "s" THEN <<Head(elems).b>> \o StringsOf(Tail(elems))
    ELSE << <<>> >>

\* RequestID after Decode: the first element when it is a uint64, else 0.
DecodedRequestID(buf) ==
    LET w == Wire(buf) IN
    IF w.ok /\ w.v.k = "l" /\ Len(w.v.items) >= 1 /\ Fits(w.v.items[1], TUint)
    THEN w.v.items[1].b
    ELSE Uint(0)

\* Payload of an errorResponse after Decode.
DecodedErrorPayload(buf) ==
    LET w == Wire(buf) IN
    IF w.ok /\ w.v.k = "l" /\ Len(w.v.items) >= 2 /\ Fits(w.v.items[1], TUint)
       /\ w.v.items[2].k = "l"
    THEN StringsOf(w.v.items[2].items)
    ELSE <<>>

\* Payload[len(Payload)-1] panics when the payload is empty.
parseError(buf) ==
    LET payload == DecodedErrorPayload(buf) IN
    IF Len(payload) = 0 THEN Ret("panic", <<>>, "index out of range [-1]")
    ELSE Ret("Error", [Message |-> payload[Len(payload)]], "nil")

ResponseID(buf) == DecodedRequestID(buf)

IsResponseType(rawData) == Contains(rawData, responsePivot)

IsErrorType(rawData) == Contains(rawData, errorPivot)

(***************************************************************************)
(* The request encoder.                                                    *)
(***************************************************************************)
\* []byte(method): the bytes of a method name.
Ascii(method) ==
    CASE method = "hello" -> <<104, 101, 108, 108, 111>>
      [] method = "portsend" -> <<112, 111, 114, 116, 115, 101, 110, 100>>
      [] method = "portclose" -> <<112, 111, 114, 116, 99, 108, 111, 115, 101>>
      [] method = "getblock" -> <<103, 101, 116, 98, 108, 111, 99, 107>>
      [] method = "getblockpeak" -> <<103, 101, 116, 98, 108, 111, 99, 107, 112, 101, 97, 107>>
      [] method = "getblockheader2" -> <<103, 101, 116, 98, 108, 111, 99, 107, 104, 101, 97, 100, 101, 114, 50>>
      [] method = "getblockquick2" -> <<103, 101, 116, 98, 108, 111, 99, 107, 113, 117, 105, 99, 107, 50>>
      [] method = "getaccount" -> <<103, 101, 116, 97, 99, 99, 111, 117, 110, 116>>
      [] method = "getaccountroots" -> <<103, 101, 116, 97, 99, 99, 111, 117, 110, 116, 114, 111, 111, 116, 115>>
      [] method = "getaccountvalue" -> <<103, 101, 116, 97, 99, 99, 111, 117, 110, 116, 118, 97, 108, 117, 101>>
      [] method = "ticket" -> <<116, 105, 99, 107, 101, 116>>
      [] method = "portopen" -> <<112, 111, 114, 116, 111, 112, 101, 110>>
      [] method = "getobject" -> <<103, 101, 116, 111, 98, 106, 101, 99, 116>>
      [] method = "getnode" -> <<103, 101, 116, 110, 111, 100, 101>>
      [] method = "getstateroots" -> <<103, 101, 116, 115, 116, 97, 116, 101, 114, 111, 111, 116, 115>>
      [] method = "getblockheader" -> <<103, 101, 116, 98, 108, 111, 99, 107, 104, 101, 97, 100, 101, 114>>

\* The number of arguments each case of NewMessage reads.
NewMessageArity(method) ==
    CASE method \in {"getblockpeak"} -> 0
      [] method \in {"hello", "portclose", "getblock", "getblockheader2", "getobject",
                     "getnode", "getstateroots"} -> 1
      [] method \in {"portsend", "getblockquick2", "getaccount", "getaccountroots"} -> 2
      [] method \in {"getaccountvalue", "portopen"} -> 3
      [] method \in {"ticket"} -> 6

\* The response parser each case of NewMessage returns ("nil": none).
NewMessageDecoder(method) ==
    CASE method = "getblock" -> "parseBlockResponse"
      [] method = "getblockpeak" -> "parseBlockPeakResponse"
      [] method = "getblockheader2" -> "parseBlockHeaderResponse"
      [] method = "getblockquick2" -> "parseBlockquickResponse"
      [] method = "getaccount" -> "parseAccountResponse"
      [] method = "getaccountroots" -> "parseAccountRootsResponse"
      [] method = "getaccountvalue" -> "parseAccountValueResponse"
      [] method = "ticket" -> "parseDeviceTicketResponse"
      [] method = "portopen" -> "parsePortOpenResponse"
      [] method = "getobject" -> "parseDeviceObjectResponse"
      [] method = "getnode" -> "parseServerObjResponse"
      [] method = "getstateroots" -> "parseStateRootsResponse"
      [] OTHER -> "nil"

\* The methods NewMessage has a case for.
SupportedMethods ==
    {"hello", "portsend", "portclose", "getblock", "getblockpeak", "getblockheader2",
     "getblockquick2", "getaccount", "getaccountroots", "getaccountvalue", "ticket",
     "portopen", "getobject", "getnode", "getstateroots"}

\* Every case fills RequestID, Payload.Method and the arguments in order and
\* encodes the struct; the default case returns ErrRPCNotSupport.
NewMessage(requestID, method, args) ==
    IF method \notin SupportedMethods
    THEN [bytes |-> <<>>, dec |-> "nil", err |-> "ErrRPCNotSupport"]
    ELSE [bytes |-> EncodeValue(Envelope(requestID,
                        <<S(Ascii(method))>>
                        \o [j \in 1..NewMessageArity(method) |-> S(args[j])])),
          dec |-> NewMessageDecoder(method),
          err |-> "nil"]

\* The response encoder.  The portopen case fills a portOpenOutboundResponse
\* (ResponseType, Ref, Result); the portsend and portclose cases fill the
\* request structs portSendRequest and portCloseRequest, whose first payload
\* field is Method, and leave responseType unused.  No case returns a decoder.
NewResponseMessage(requestID, responseType, method, args) ==
    CASE method = "portopen" ->
            [bytes |-> EncodeValue(Envelope(requestID,
                            <<S(responseType), S(args[1]), S(args[2])>>)),
             dec |-> "nil", err |-> "nil"]
      [] method = "portsend" ->
            [bytes |-> EncodeValue(Envelope(requestID,
                            <<S(Ascii(method)), S(args[1]), S(args[2])>>)),
             dec |-> "nil", err |-> "nil"]
      [] method = "portclose" ->
            [bytes |-> EncodeValue(Envelope(requestID, <<S(Ascii(method)), S(args[1])>>)),
             dec |-> "nil", err |-> "nil"]
      [] OTHER -> [bytes |-> <<>>, dec |-> "nil", err |-> "ErrRPCNotSupport"]

(***************************************************************************)
(* The inputs the operations are run on: envelopes a peer can send, and    *)
(* the calls a client can make.                                            *)
(***************************************************************************)
RequestIDs == {Uint(n) : n \in 1..MaxRequestID}
Refs == {Uint(n) : n \in 1..MaxRef}
Totals == {Uint(n) : n \in 0..MaxTotal}

Response(id, method, fields) == Envelope(id, <<S(responsePivot), S(method)>> \o fields)
Request(id, method, fields) == Envelope(id, <<S(method)>> \o fields)

\* Ticket replies: the outcome tag alone, or the tag and the server's fields
\* (block hash, total connections, total bytes, local address, device
\* signature).  A local address may hold the bytes of an outcome token.
TicketTags == {ticketThanksPivot, ticketTooLowPivot, ticketTooOldPivot, tooBigTag, thanksBangTag}
BlockHashes == {<<171, 1>>, <<171, 2>>}
LocalAddrs == {<<10, 0, 0, 1>>, ticketThanksPivot, ticketTooLowPivot}
TicketReplies ==
    {Response(id, ticketMethod, <<S(tag)>>) : id \in RequestIDs, tag \in TicketTags}
    \cup
    {Response(x[1], ticketMethod,
              <<S(x[2]), S(x[3]), S(x[4]), S(x[5]), S(x[6]), S(<<66>>)>>) :
        x \in RequestIDs \X TicketTags \X BlockHashes \X Totals \X Totals \X LocalAddrs}

\* Block header responses: the items of a header, of which block_hash and
\* nonce may be absent, and the miner's public key.  The block hash is the
\* hash of the header sent ("honest") or that of another header ("other").
HeaderItem(key, value) == L(<<S(key), S(value)>>)
SentHeader(number, nonce) ==
    NewHeader(<<17>>, <<18>>, <<19>>, <<20, 21>>, DecompressPubkeyBytes(<<2, 99>>),
              <<1, 0>>, number, nonce)
HeaderResponse(id, number, nonce, hashKind) ==
    Response(id, Ascii("getblockheader2"),
        <<L(<<HeaderItem(keyTransactionHash, <<17>>),
              HeaderItem(keyStateHash, <<18>>),
              HeaderItem(keyPreviousBlock, <<19>>),
              HeaderItem(keyMinerSignature, <<20, 21>>),
              HeaderItem(keyTimestamp, <<1, 0>>),
              HeaderItem(keyNumber, number)>>
            \o (IF nonce = "absent" THEN <<>> ELSE <<HeaderItem(keyNonce, nonce)>>)
            \o (CASE hashKind = "absent" -> <<>>
                  [] hashKind = "honest" ->
                        <<HeaderItem(keyBlockHash,
                              HeaderHash(SentHeader(number, IF nonce = "absent" THEN <<>> ELSE nonce)))>>
                  [] hashKind = "other" ->
                        <<HeaderItem(keyBlockHash, HeaderHash(SentHeader(<<9>>, <<>>)))>>)),
          S(<<2, 99>>)>>)
HeaderResponses ==
    {HeaderResponse(x[1], x[2], x[3], x[4]) :
        x \in RequestIDs \X Refs \X {"absent", <<5>>} \X {"absent", "honest", "other"}}

\* Port open responses: a result and a ref.
PortOpenResponses ==
    {Response(x[1], portOpenPivot, <<S(x[2]), S(x[3])>>) :
        x \in RequestIDs \X {okLiteral, busyResult} \X (Refs \cup {Uint(0)})}

\* For every method NewMessage encodes, and for one it does not, a response
\* that names the method and carries one result.
MethodNames == SupportedMethods \cup {"getblockheader"}
MethodResponse(id, method) == Response(id, Ascii(method), <<S(<<1>>)>>)
MethodResponses == {MethodResponse(id, m) : id \in RequestIDs, m \in MethodNames}

\* For every method NewMessage binds a parser to, a response of the shape
\* the server answers that method with.
GoodFields(method) ==
    CASE method = "getblock" -> <<L(<<S(<<1>>)>>)>>
      [] method = "getblockpeak" -> <<S(Uint(5))>>
      [] method = "getblockquick2" -> <<L(<<S(<<1>>)>>)>>
      [] method = "getaccount" ->
            <<L(<<HeaderItem(keyNonce, <<0, 3>>), HeaderItem(keyBalance, <<4>>),
                  HeaderItem(keyStorageRoot, <<33>>), HeaderItem(keyCode, <<34>>)>>),
              L(<<S(<<35>>), S(<<36>>)>>)>>
      [] method = "getaccountroots" -> <<L(<<S(<<37>>)>>)>>
      [] method = "getaccountvalue" -> <<L(<<S(<<35>>), S(<<36>>)>>)>>
      [] method = "ticket" -> <<S(ticketThanksPivot)>>
      [] method = "portopen" -> <<S(okLiteral), S(Uint(1))>>
      [] method = "getobject" ->
            <<L(<<S(<<38>>), S(Uint(1)), S(<<39>>), S(Uint(1)), S(Uint(1)), S(<<40>>),
                  S(<<41>>), S(<<42>>)>>)>>
      [] method = "getnode" -> <<L(<<S(<<43>>), S(Uint(1)), S(Uint(2)), S(<<44>>)>>)>>
      [] method = "getstateroots" -> <<L(<<S(<<45>>)>>)>>
      [] OTHER -> <<>>
GoodResponse(id, method) ==
    IF method = "getblockheader2" THEN HeaderResponse(id, Uint(1), <<5>>, "honest")
    ELSE Response(id, Ascii(method), GoodFields(method))
GoodResponses == {GoodResponse(id, m) : id \in RequestIDs, m \in SupportedMethods}

\* Error envelopes: the tag "error", the method and a message; one whose
\* payload is empty.
ErrorEnvelopes ==
    {Envelope(id, <<S(errorPivot), S(Ascii(m)), S(busyResult)>>) :
        id \in RequestIDs, m \in {"portopen", "getblock"}}
    \cup {Envelope(id, <<>>) : id \in RequestIDs}

\* Responses whose result holds the bytes of a method name.
CollidingResponses ==
    {Response(x[1], Ascii(x[2]), <<S(x[3])>>) :
        x \in RequestIDs \X {"getnode", "getobject", "portopen"}
                \X {portOpenPivot, nodePivot, objectPivot}}

\* Inbound request frames.  The data of a portsend may hold the bytes of a
\* method name or of an envelope tag.
SendData == {<<104, 105>>, portClosePivot, portOpenPivot, responsePivot}
InboundFrames ==
    {Request(id, portOpenPivot, <<S(Uint(80)), S(r), S(<<222, 173>>)>>) :
        id \in RequestIDs, r \in Refs}
    \cup {Request(x[1], portSendPivot, <<S(x[2]), S(x[3])>>) :
            x \in RequestIDs \X Refs \X SendData}
    \cup {Request(id, portClosePivot, <<S(r)>>) : id \in RequestIDs, r \in Refs}
    \cup {Request(id, goodbyePivot, <<S(reason)>>) :
            id \in RequestIDs, reason \in {busyResult, portClosePivot}}
    \cup {Request(id, helloPivot, <<S(Uint(1))>>) : id \in RequestIDs}

InboundBuffers ==
    {EncodeValue(v) : v \in TicketReplies \cup PortOpenResponses \cup MethodResponses
                              \cup GoodResponses \cup CollidingResponses
                              \cup ErrorEnvelopes \cup InboundFrames}
    \cup {<<>>, <<1>>}

\* The calls of NewMessage: every method with well-typed arguments, the
\* first a number and the second a byte string.
Args(r, data) == [j \in 1..6 |-> IF j = 1 THEN r ELSE IF j = 2 THEN data ELSE <<104, 105>>]
Calls ==
    {[fn |-> "NewMessage", requestID |-> x[1], responseType |-> <<>>, method |-> x[2],
      args |-> Args(x[3], x[4])] :
        x \in RequestIDs \X MethodNames \X Refs \X SendData}

\* The calls of NewResponseMessage: a ref and a result or data.
ResponseCalls ==
    {[fn |-> "NewResponseMessage", requestID |-> x[1], responseType |-> x[2],
      method |-> x[3], args |-> Args(x[4], x[5])] :
        x \in RequestIDs \X {responsePivot, errorPivot}
                \X {"portopen", "portsend", "portclose", "hello"}
                \X Refs \X {okLiteral, <<104, 105>>}}

NoCall == [fn |-> "", requestID |-> <<>>, responseType |-> <<>>, method |-> "", args |-> <<>>]
NoRet == NilErr("nil")
NoExtern ==
    [newHeaderErr |-> FALSE, proofErr |-> FALSE, rootHash |-> <<>>, module |-> <<>>,
     leaves |-> <<>>]

\* Account responses and what the Merkle parser makes of their proof: a
\* tree, or a failure part way through the proof.
AccountBuffers ==
    {EncodeValue(GoodResponse(id, m)) : id \in RequestIDs, m \in {"getaccount", "getaccountvalue"}}
ProofResults ==
    {[NoExtern EXCEPT !.proofErr = e, !.rootHash = <<46>>, !.module = Uint(1),
                      !.leaves = <<<<47>>>>] : e \in BOOLEAN}
\* Raw proofs handed to NewMerkleTree.
RawTrees == {<<>>, <<S(<<35>>), S(<<36>>)>>}

(***************************************************************************)
(* The state machine.                                                      *)
(***************************************************************************)
Init ==
    /\ op = "none"
    /\ ret = NoRet
    /\ session = [r \in Refs |-> "unknown"]
    /\ \/ /\ buffer \in InboundBuffers
          /\ call = NoCall
          /\ extern = NoExtern
       \/ /\ buffer \in {EncodeValue(v) : v \in HeaderResponses}
          /\ call = NoCall
          /\ \E e \in BOOLEAN : extern = [NoExtern EXCEPT !.newHeaderErr = e]
       \/ /\ buffer \in AccountBuffers
          /\ call = NoCall
          /\ extern \in ProofResults
       \/ /\ buffer = <<>>
          /\ call \in Calls \cup ResponseCalls
          /\ extern = NoExtern

\* The receive path classifies the buffer as a response and dispatches it.
ParseResponse ==
    /\ call = NoCall
    /\ op' = "parseResponse"
    /\ ret' = parseResponse(buffer, extern)
    /\ UNCHANGED <<buffer, call, extern, session>>

Decoders ==
    {"parsePortOpenResponse", "parseBlockResponse", "parseBlockHeaderResponse",
     "parseBlockquickResponse", "parseBlockPeakResponse", "parseAccountResponse",
     "parseAccountValueResponse", "parseAccountRootsResponse", "parseStateRootsResponse",
     "parseDeviceObjectResponse", "parseServerObjResponse", "parseDeviceTicketResponse"}

\* The caller runs the parser NewMessage returned with the request on the
\* response that correlates with it.
RunDecoder ==
    /\ call = NoCall
    /\ op = "none"
    /\ \E dec \in Decoders :
          /\ op' = dec
          /\ ret' = ApplyDecoder(dec, buffer, extern)
    /\ UNCHANGED <<buffer, call, extern, session>>

\* What a handled inbound request does to the refs of the connection: a
\* port open opens its ref, a port close closes an open ref, a goodbye
\* closes every open ref.
SessionAfter(s, r) ==
    CASE r.kind = "PortOpen" /\ r.val.Ref \in DOMAIN s -> [s EXCEPT ![r.val.Ref] = "open"]
      [] r.kind = "PortClose" /\ r.val.Ref \in DOMAIN s ->
            [s EXCEPT ![r.val.Ref] = IF @ = "open" THEN "closed" ELSE @]
      [] r.kind = "Goodbye" -> [x \in DOMAIN s |-> IF s[x] = "open" THEN "closed" ELSE s[x]]
      [] OTHER -> s

\* An inbound request frame arrives on the connection and is parsed.
ReceiveRequest ==
    /\ call = NoCall
    /\ op \in {"none", "parseInboundRequest"}
    /\ \E v \in InboundFrames :
          /\ buffer' = EncodeValue(v)
          /\ ret' = parseInboundRequest(EncodeValue(v))
          /\ session' = SessionAfter(session, parseInboundRequest(EncodeValue(v)))
    /\ op' = "parseInboundRequest"
    /\ UNCHANGED <<call, extern>>

\* parseInboundRequest on the buffer at hand, whatever it holds.
ParseInboundRequest ==
    /\ call = NoCall
    /\ op = "none"
    /\ op' = "parseInboundRequest"
    /\ ret' = parseInboundRequest(buffer)
    /\ session' = SessionAfter(session, parseInboundRequest(buffer))
    /\ UNCHANGED <<buffer, call, extern>>

\* The receive path classified the buffer as an error.
ParseError ==
    /\ call = NoCall
    /\ op = "none"
    /\ op' = "parseError"
    /\ ret' = parseError(buffer)
    /\ UNCHANGED <<buffer, call, extern, session>>

\* The correlator reads the request id of the buffer.
CallResponseID ==
    /\ call = NoCall
    /\ op = "none"
    /\ op' = "ResponseID"
    /\ ret' = Ret("uint64", ResponseID(buffer), "nil")
    /\ UNCHANGED <<buffer, call, extern, session>>

\* The receive path asks what kind of envelope the buffer is.
Classify ==
    /\ call = NoCall
    /\ op = "none"
    /\ op' = "classify"
    /\ ret' = Ret("class",
                  [IsResponseType |-> IsResponseType(buffer),
                   IsErrorType |-> IsErrorType(buffer)],
                  "nil")
    /\ UNCHANGED <<buffer, call, extern, session>>

\* NewMerkleTree on a raw proof.
CallNewMerkleTree ==
    /\ call = NoCall
    /\ op = "none"
    /\ \E rawTree \in RawTrees :
          ret' = Ret("MerkleTree", NewMerkleTree(rawTree, extern).mt,
                     NewMerkleTree(rawTree, extern).err)
    /\ op' = "NewMerkleTree"
    /\ UNCHANGED <<buffer, call, extern, session>>

CallNewMessage ==
    /\ call.fn = "NewMessage"
    /\ op = "none"
    /\ op' = "NewMessage"
    /\ ret' = NewMessage(call.requestID, call.method, call.args)
    /\ UNCHANGED <<buffer, call, extern, session>>

CallNewResponseMessage ==
    /\ call.fn = "NewResponseMessage"
    /\ op = "none"
    /\ op' = "NewResponseMessage"
    /\ ret' = NewResponseMessage(call.requestID, call.responseType, call.method, call.args)
    /\ UNCHANGED <<buffer, call, extern, session>>

\* The bytes NewMessage returned reach the peer, which parses them as an
\* inbound request.
DeliverRequest ==
    /\ op = "NewMessage"
    /\ ret.err = "nil"
    /\ buffer' = ret.bytes
    /\ op' = "parseInboundRequest"
    /\ ret' = parseInboundRequest(ret.bytes)
    /\ session' = SessionAfter(session, parseInboundRequest(ret.bytes))
    /\ UNCHANGED <<call, extern>>

Next ==
    \/ ParseResponse
    \/ RunDecoder
    \/ ReceiveRequest
    \/ ParseInboundRequest
    \/ ParseError
    \/ CallResponseID
    \/ Classify
    \/ CallNewMerkleTree
    \/ CallNewMessage
    \/ CallNewResponseMessage
    \/ DeliverRequest

Spec == Init /\ [][Next]_vars

(***************************************************************************)
(* Reading a buffer back as the envelope a peer sent.                      *)
(***************************************************************************)
IsEnvelope(buf) ==
    /\ Wire(buf).ok
    /\ Wire(buf).v.k = "l"
    /\ Len(Wire(buf).v.items) = 2
    /\ Wire(buf).v.items[1].k = "s"
    /\ Wire(buf).v.items[2].k = "l"
WirePayload(buf) == Payload(Wire(buf).v)
\* A response envelope whose method element is the given method name.
RespondsTo(buf, method) ==
    /\ IsEnvelope(buf)
    /\ Len(WirePayload(buf)) >= 2
    /\ WirePayload(buf)[1] = S(responsePivot)
    /\ WirePayload(buf)[2] = S(method)
\* A ticket reply with the given outcome tag.
Tagged(buf, tag) ==
    /\ RespondsTo(buf, ticketMethod)
    /\ Len(WirePayload(buf)) >= 3
    /\ WirePayload(buf)[3] = S(tag)
\* A request envelope of the given method.
Requests(buf, method) ==
    /\ IsEnvelope(buf)
    /\ Len(WirePayload(buf)) >= 1
    /\ WirePayload(buf)[1] = S(method)

\* The pivots parseResponse and parseInboundRequest test for.
ResponseMarkers ==
    {portOpenPivot, blockPivot, block2Pivot, blockHeaderPivot, blockHeader2Pivot,
     blockquickPivot, blockquick2Pivot, blockPeakPivot, accountPivot, accountValuePivot,
     accountRootsPivot, stateRootsPivot, objectPivot, nodePivot, ticketPivot}
InboundMarkers == {portOpenPivot, portSendPivot, portClosePivot, goodbyePivot}
\* Every method token of the wire format.
MethodTokens == ResponseMarkers \cup InboundMarkers \cup {helloPivot, ticketMethod}

(***************************************************************************)
(* C1..C10                                                                 *)
(***************************************************************************)

\* C1: for every method NewMessage binds a response decoder to, parseResponse
\* on a response envelope that contains that method token and no other
\* method token selects the decoder NewMessage bound to the method.
C1_DispatchSelectsBoundDecoder ==
    \A m \in SupportedMethods :
        ( /\ op = "parseResponse"
          /\ NewMessageDecoder(m) # "nil"
          /\ RespondsTo(buffer, Ascii(m))
          /\ \A t \in MethodTokens \ {Ascii(m)} : ~Contains(buffer, t) )
        => responseHandler(buffer) = NewMessageDecoder(m)

\* C2: an inbound envelope with no known method marker makes its dispatcher
\* return ErrResponseHandlerNotFound, never a nil result with a nil error.
C2_NoMarkerIsReported ==
    /\ (op = "parseResponse" /\ \A t \in ResponseMarkers : ~Contains(buffer, t))
          => (ret.kind = "nil" /\ ret.err = "ErrResponseHandlerNotFound")
    /\ (op = "parseInboundRequest" /\ \A t \in InboundMarkers : ~Contains(buffer, t))
          => (ret.kind = "nil" /\ ret.err = "ErrResponseHandlerNotFound")

\* C3: no method marker is a prefix or substring of another (stated for the
\* markers that occur in the buffer at hand), so a buffer that holds exactly
\* one method name passes at most one marker test.
C3_MarkersPrefixFree ==
    ( /\ op = "parseResponse"
      /\ \E m \in MethodNames : RespondsTo(buffer, Ascii(m))
      /\ Len(WirePayload(buffer)) = 3
      /\ WirePayload(buffer)[3] = S(<<1>>) )
    => /\ \A t, u \in ResponseMarkers \cup InboundMarkers :
              (Contains(buffer, u) /\ t # u) => ~Contains(u, t)
       /\ Cardinality({t \in ResponseMarkers : Contains(buffer, t)}) <= 1

\* C4: parseDeviceTicketResponse on a reply tagged "thanks!" that decodes
\* returns the void DeviceTicket (every field zero, Err nil) and no error.
C4_ThanksYieldsVoidTicket ==
    ( /\ op = "parseDeviceTicketResponse"
      /\ Tagged(buffer, ticketThanksPivot)
      /\ Decode(buffer, ticketThanksResponse).ok )
    => /\ ret.kind = "DeviceTicket"
       /\ ret.err = "nil"
       /\ ret.val.TotalConnections = Uint(0)
       /\ ret.val.TotalBytes = Uint(0)
       /\ ret.val.Err = "nil"
       /\ ret.val = VoidTicket

C4_Witness ==
    /\ op = "parseDeviceTicketResponse"
    /\ Tagged(buffer, ticketThanksPivot)
    /\ Decode(buffer, ticketThanksResponse).ok
    /\ ret.kind = "DeviceTicket"
    /\ ret.val = VoidTicket

\* C5: parseDeviceTicketResponse on a reply tagged "too_low" returns a ticket
\* with the reply's totals and Err = ErrTicketTooLow, whatever bytes the
\* reply's data fields hold.
C5_TooLowCarriesTotals ==
    ( /\ op = "parseDeviceTicketResponse"
      /\ Tagged(buffer, ticketTooLowPivot)
      /\ Decode(buffer, ticketTooLowResponse).ok )
    => /\ ret.kind = "DeviceTicket"
       /\ ret.val.TotalConnections = WirePayload(buffer)[5].b
       /\ ret.val.TotalBytes = WirePayload(buffer)[6].b
       /\ ret.val.Err = "ErrTicketTooLow"

\* C6: every outcome branch returns the fields the server supplied; a
\* "too_old" reply yields Err = ErrTicketTooOld and the supplied fields.
C6_EveryBranchReturnsFields ==
    \A tag \in {ticketThanksPivot, ticketTooOldPivot, ticketTooLowPivot} :
        ( /\ op = "parseDeviceTicketResponse"
          /\ Tagged(buffer, tag)
          /\ Len(WirePayload(buffer)) = 8
          /\ ret.kind = "DeviceTicket" )
        => /\ ret.val.BlockHash = WirePayload(buffer)[4].b
           /\ ret.val.TotalConnections = WirePayload(buffer)[5].b
           /\ ret.val.TotalBytes = WirePayload(buffer)[6].b
           /\ ret.val.LocalAddr = WirePayload(buffer)[7].b
           /\ ret.val.DeviceSig = WirePayload(buffer)[8].b
           /\ (tag = ticketTooOldPivot => ret.val.Err = "ErrTicketTooOld")

\* C7: a ticket reply whose outcome tag is none of "thanks!", "too_old",
\* "too_low" fails with ErrFailedToParseTicket and returns no ticket.
C7_UnknownOutcomeFails ==
    ( /\ op = "parseDeviceTicketResponse"
      /\ RespondsTo(buffer, ticketMethod)
      /\ Len(WirePayload(buffer)) >= 3
      /\ WirePayload(buffer)[3].k = "s"
      /\ WirePayload(buffer)[3].b \notin {ticketThanksPivot, ticketTooOldPivot, ticketTooLowPivot} )
    => /\ ret.kind = "nil"
       /\ ret.err = "ErrFailedToParseTicket"

\* C8: parseBlockHeaderResponse returns a header only if the hash recomputed
\* from the received fields equals the supplied block_hash; when they
\* differ, or block_hash is absent, it returns an error and no header.
C8_HeaderOnlyOnMatchingHash ==
    ( /\ op = "parseBlockHeaderResponse"
      /\ Decode(buffer, blockHeaderResponse).ok )
    => LET items == WirePayload(buffer)[3].items
           supplied == {items[j].items[2].b :
                           j \in {i \in 1..Len(items) : items[i].items[1].b = keyBlockHash}}
           recomputed == HeaderHash(HeaderOf(WirePayload(buffer)))
       IN /\ ret.kind = "BlockHeader" =>
                (recomputed \in supplied /\ ret.err = "nil" /\ ret.val = HeaderOf(WirePayload(buffer)))
          /\ recomputed \notin supplied => (ret.kind = "nil" /\ ret.err # "nil")

C8_Witness ==
    /\ op = "parseBlockHeaderResponse"
    /\ Decode(buffer, blockHeaderResponse).ok
    /\ findItemInItems(WirePayload(buffer)[3].items, keyBlockHash).err = "nil"
    /\ findItemInItems(WirePayload(buffer)[3].items, keyNonce).err # "nil"
    /\ ~extern.newHeaderErr
    /\ ret.kind = "nil"
    /\ ret.err = "Blockhash != real hash"

\* C9: once a PortOpen assigned ref r, an inbound PortSend(r, data) succeeds
\* and surfaces data; a PortSend or PortClose for a ref that is not open
\* (closed, or never opened) is reported as an error, not as a frame with
\* ok = true.
C9_ClosedRefRejected ==
    [][ ( /\ op' = "parseInboundRequest"
          /\ \E m \in {portSendPivot, portClosePivot} : Requests(buffer', m)
          /\ Len(WirePayload(buffer')) >= 2
          /\ WirePayload(buffer')[2].b \in Refs )
        => LET r == WirePayload(buffer')[2].b IN
           /\ (session[r] = "open" /\ Requests(buffer', portSendPivot))
                 => /\ ret'.kind = "PortSend"
                    /\ ret'.val = [Ref |-> r, Data |-> WirePayload(buffer')[3].b, Ok |-> TRUE]
           /\ session[r] # "open"
                 => ~(ret'.kind \in {"PortSend", "PortClose"} /\ ret'.err = "nil" /\ ret'.val.Ok)
      ]_vars

\* C10 (as claimed): a PortOpen response whose result is not "ok" yields
\* ok = false and a record with no ref; ok = true exactly when the result
\* is "ok".
C10_FailedOpenCarriesNoRef ==
    ( /\ op = "parsePortOpenResponse"
      /\ RespondsTo(buffer, portOpenPivot)
      /\ Decode(buffer, portOpenResponse).ok )
    => /\ ret.kind = "PortOpen"
       /\ ret.val.Ok = (WirePayload(buffer)[3].b = okLiteral)
       /\ ~ret.val.Ok => ret.val.Ref = Uint(0)

\* C10 (amended): a PortOpen response that decodes yields ok = true exactly
\* when its result is "ok"; the record's Ref is the ref of the response
\* whatever the result; and the parser opens no session.
C10_OkIffResultOk ==
    ( /\ op = "parsePortOpenResponse"
      /\ RespondsTo(buffer, portOpenPivot)
      /\ Decode(buffer, portOpenResponse).ok )
    => /\ ret.kind = "PortOpen"
       /\ ret.err = "nil"
       /\ ret.val.Ok = (WirePayload(buffer)[3].b = okLiteral)
       /\ ret.val.Ref = WirePayload(buffer)[4].b
       /\ \A r \in Refs : session[r] # "open"

C10_Witness ==
    /\ op = "parsePortOpenResponse"
    /\ RespondsTo(buffer, portOpenPivot)
    /\ WirePayload(buffer)[3].b = busyResult
    /\ ret.kind = "PortOpen"
    /\ ~ret.val.Ok
    /\ ret.val.Ref # Uint(0)
(***************************************************************************)
(* C11..C17                                                                *)
(***************************************************************************)

\* C11: for every ref and every data byte string, the bytes of
\* NewMessage(id, "portsend", ref, data) decoded through parseInboundRequest
\* give a PortSend record with the same ref, the same data and ok = true,
\* whatever bytes the data contains.
C11_PortSendRoundTrip ==
    (call.fn = "NewMessage" /\ call.method = "portsend" /\ op = "parseInboundRequest")
        => /\ ret.kind = "PortSend"
           /\ ret.err = "nil"
           /\ ret.val = [Ref |-> call.args[1], Data |-> call.args[2], Ok |-> TRUE]

\* C12: whenever NewMessage returns encoded bytes without error it also
\* returns a non-nil decoder, and that decoder decodes the response of the
\* method encoded; for an unsupported method it returns ErrRPCNotSupport
\* with neither bytes nor decoder.
C12_NewMessageBindsDecoder ==
    op = "NewMessage"
        => /\ ret.err = "nil"
                => /\ ret.bytes # <<>>
                   /\ ret.dec \in Decoders
                   /\ ApplyDecoder(ret.dec,
                                   EncodeValue(GoodResponse(call.requestID, call.method)),
                                   NoExtern).err = "nil"
           /\ call.method \notin SupportedMethods
                => ret = [bytes |-> <<>>, dec |-> "nil", err |-> "ErrRPCNotSupport"]

\* C13: whenever parsing the raw proof fails, NewMerkleTree returns a non-nil
\* error and a tree whose RootHash, Module and Leaves are unset, and
\* parseAccountResponse / parseAccountValueResponse return that error and no
\* Account / AccountValue.
C13_NoPartialTree ==
    extern.proofErr
        => /\ op = "NewMerkleTree"
                => /\ ret.err # "nil"
                   /\ ret.val.RootHash = <<>>
                   /\ ret.val.Module = Uint(0)
                   /\ ret.val.Leaves = <<>>
           /\ op \in {"parseAccountResponse", "parseAccountValueResponse"}
                => /\ ret.kind = "nil"
                   /\ ret.err # "nil"
           /\ (op = "parseAccountResponse" /\ Decode(buffer, accountResponse).ok)
                => ret.err = "ErrInvalidProof"
           /\ (op = "parseAccountValueResponse" /\ Decode(buffer, accountValueResponse).ok)
                => ret.err = "ErrInvalidProof"

\* A proof whose parse failed after gathering a root hash and leaves: the
\* tree returned with the error holds none of them.
C13_Witness ==
    /\ op = "NewMerkleTree"
    /\ extern.proofErr
    /\ extern.rootHash # <<>>
    /\ extern.leaves # <<>>
    /\ ret.err = "ErrInvalidProof"
    /\ ret.val.RawTree # <<>>
    /\ ret.val.RootHash = <<>>
    /\ ret.val.Leaves = <<>>

\* C14: for every parse operation, parseError and ResponseID included, a
\* buffer that fails structural decoding gives a non-nil error (or an
\* explicit failure value) and no decoded record, and no operation crashes
\* on an empty payload.
C14_DecodeFailureReturned ==
    /\ (op \in Decoders \cup {"parseError", "ResponseID"} /\ ~IsEnvelope(buffer))
            => (ret.kind = "nil" /\ ret.err # "nil")
    /\ (op = "parseError" /\ ~Decode(buffer, errorResponse).ok)
            => (ret.kind = "nil" /\ ret.err # "nil")
    /\ (op = "ResponseID" /\ ~Decode(buffer, responseID).ok)
            => (ret.kind = "nil" /\ ret.err # "nil")
    /\ op = "parseError" => ret.kind # "panic"

\* The tests of parseResponse and of parseInboundRequest in the order they
\* are made, each with the parser of its branch.
ResponseOrder ==
    << <<portOpenPivot, "parsePortOpenResponse">>,
       <<blockPivot, "parseBlockResponse">>,
       <<block2Pivot, "parseBlockResponse">>,
       <<blockHeaderPivot, "parseBlockHeaderResponse">>,
       <<blockHeader2Pivot, "parseBlockHeaderResponse">>,
       <<blockquickPivot, "parseBlockquickResponse">>,
       <<blockquick2Pivot, "parseBlockquickResponse">>,
       <<blockPeakPivot, "parseBlockPeakResponse">>,
       <<accountPivot, "parseAccountResponse">>,
       <<accountValuePivot, "parseAccountValueResponse">>,
       <<accountRootsPivot, "parseAccountRootsResponse">>,
       <<stateRootsPivot, "parseStateRootsResponse">>,
       <<objectPivot, "parseDeviceObjectResponse">>,
       <<nodePivot, "parseServerObjResponse">>,
       <<ticketPivot, "parseDeviceTicketResponse">> >>
InboundOrder ==
    << <<portOpenPivot, "parseInboundPortOpenRequest">>,
       <<portSendPivot, "parseInboundPortSendRequest">>,
       <<portClosePivot, "parseInboundPortCloseRequest">>,
       <<goodbyePivot, "parseInboundGoodbyeRequest">> >>
\* The places of an order whose token the buffer contains.
Found(buf, order) == {i \in 1..Len(order) : Contains(buf, order[i][1])}
\* The parser of the first of them.
FirstInOrder(buf, order) ==
    order[CHOOSE i \in Found(buf, order) : \A j \in Found(buf, order) : i <= j][2]
ApplyInboundParser(parser, buf) ==
    CASE parser = "parseInboundPortOpenRequest" -> parseInboundPortOpenRequest(buf)
      [] parser = "parseInboundPortSendRequest" -> parseInboundPortSendRequest(buf)
      [] parser = "parseInboundPortCloseRequest" -> parseInboundPortCloseRequest(buf)
      [] parser = "parseInboundGoodbyeRequest" -> parseInboundGoodbyeRequest(buf)
\* The buffer contains two different method tokens.
TwoTokens(buf) ==
    \E t, u \in MethodTokens : t # u /\ Contains(buf, t) /\ Contains(buf, u)

\* C15: on a buffer that contains two different method tokens, parseResponse
\* and parseInboundRequest return what the parser of the token that comes
\* first in their test order returns (which may be a rejection), wherever
\* the tokens lie in the buffer and whichever is the method element; a
\* buffer none of whose tokens the dispatcher tests for yields no record
\* (from parseResponse, with ErrResponseHandlerNotFound).
C15_FirstTestedTokenWins ==
    TwoTokens(buffer)
        => /\ (op = "parseResponse" /\ Found(buffer, ResponseOrder) # {})
                => ret = ApplyDecoder(FirstInOrder(buffer, ResponseOrder), buffer, extern)
           /\ (op = "parseResponse" /\ Found(buffer, ResponseOrder) = {})
                => ret = NilErr("ErrResponseHandlerNotFound")
           /\ (op = "parseInboundRequest" /\ Found(buffer, InboundOrder) # {})
                => ret = ApplyInboundParser(FirstInOrder(buffer, InboundOrder), buffer)
           /\ (op = "parseInboundRequest" /\ Found(buffer, InboundOrder) = {})
                => ret.kind = "nil"

\* A portsend frame whose data, after the method element, holds "portopen":
\* the port open parser is the one that ran.
C15_Witness ==
    /\ op = "parseInboundRequest"
    /\ Requests(buffer, portSendPivot)
    /\ WirePayload(buffer)[3].b = portOpenPivot
    /\ FirstInOrder(buffer, InboundOrder) = "parseInboundPortOpenRequest"
    /\ ret = parseInboundPortOpenRequest(buffer)
    /\ ret # parseInboundPortSendRequest(buffer)

\* C16: IsResponseType and IsErrorType are never both true of a buffer, and
\* a buffer that is an inbound request (a portsend frame with any data, for
\* one) is classified neither as a response nor as an error.
C16_ExactlyOneClass ==
    op = "classify"
        => /\ ~(ret.val.IsResponseType /\ ret.val.IsErrorType)
           /\ (\E m \in InboundMarkers : Requests(buffer, m))
                => (~ret.val.IsResponseType /\ ~ret.val.IsErrorType)

\* C17: every envelope NewMessage produces carries the given request id and
\* has the method name as its first payload element, and every envelope
\* NewResponseMessage produces (for portopen, portsend and portclose alike)
\* carries the given request id and has the given responseType as its first
\* payload element.
C17_EncodersTagEnvelopes ==
    /\ (op = "NewMessage" /\ ret.err = "nil")
            => /\ IsEnvelope(ret.bytes)
               /\ Wire(ret.bytes).v.items[1].b = call.requestID
               /\ Len(WirePayload(ret.bytes)) >= 1
               /\ WirePayload(ret.bytes)[1] = S(Ascii(call.method))
    /\ (op = "NewResponseMessage" /\ ret.err = "nil")
            => /\ IsEnvelope(ret.bytes)
               /\ Wire(ret.bytes).v.items[1].b = call.requestID
               /\ Len(WirePayload(ret.bytes)) >= 1
               /\ WirePayload(ret.bytes)[1] = S(call.responseType)

====
